---- MODULE Spec2Model ----
(***************************************************************************)
(* A model of manipulate_pdf.py: the caption retrieval                     *)
(* (get_image_description), the caption line wrapping (text_wrap) and the  *)
(* page/image pipeline (extract_pdf).                                      *)
(*                                                                         *)
(* Two specifications:                                                     *)
(*   Spec      the run of extract_pdf, one action per block of its body;   *)
(*   SpecWrap  text_wrap alone, one action per loop iteration, on inputs   *)
(*             drawn from bounded sets.                                    *)
(***************************************************************************)
EXTENDS Integers, Sequences, FiniteSets, TLC

VARIABLES
    \* ---- extract_pdf ----
    args,           \* the argparse.Namespace (fixed for the run)
    pc,             \* position in extract_pdf
    abortCause,     \* why the run ended early ("" while it has not)
    opened,         \* fitz.open(pdf) has returned a document
    nPages,         \* len(doc)
    pageNo,         \* 1-based number of the page the outer loop is at
    image_list,     \* number of images page.get_images() returned for the page
    img_index,      \* img_index of the inner loop (0-based, as in the code)
    pil_img,        \* the PIL image being processed
    description,    \* the local `description`
    snapshotFailed, \* pil_img.save(orig_tmp_path) raised for the current image
    callFailed,     \* get_image_description failed for the current image
    lastSent,       \* the file content posted to the captioning service for this image
    o_tmp,          \* the file o_tmp.jpg
    tmp,            \* the file tmp.jpg
    lastInserted,   \* the last page.insert_image: where, and what the file held
    unprocessed,    \* images listed by page.get_images() and not re-inserted yet
    saveCalls,      \* number of doc.save calls
    output,         \* the output file: "none", "saved" or "partial"
    \* ---- text_wrap (SpecWrap) ----
    w_pc, w_text, w_font, w_max, w_st, w_result, w_decisions

pdfVars == <<args, pc, abortCause, opened, nPages, pageNo, image_list, img_index,
             pil_img, description, snapshotFailed, callFailed, lastSent, o_tmp, tmp,
             lastInserted, unprocessed, saveCalls, output>>
wrapVars == <<w_pc, w_text, w_font, w_max, w_st, w_result, w_decisions>>
vars == <<pdfVars, wrapVars>>

----------------------------------------------------------------------------
(* Bounds of the model.                                                    *)
MaxLen == 4        \* longest text given to text_wrap in SpecWrap
MaxWidth == 4      \* largest max_width given to text_wrap in SpecWrap
MaxPages == 2      \* most pages of a document
MaxImages == 2     \* most images on one page
MaxImgWidth == 2   \* widest decoded image (pixels)
MaxBlur == 1       \* the positive --blur radius tried (beside 0)

----------------------------------------------------------------------------
(* Python values: None, a str (a sequence of characters), or a value of    *)
(* another type (a number, a list, ...).                                   *)
None == [t |-> "none", v |-> <<>>]
Str(s) == [t |-> "str", v |-> s]
Other == [t |-> "other", v |-> <<>>]
Num(n) == [t |-> "int", v |-> n]
Font == [t |-> "font", v |-> <<>>]   \* an ImageFont object

Chars == {"a", "b", " "}

(* font.getbbox(s): bbox[2] - bbox[0] is the sum of the glyph advances,    *)
(* bbox[3] - bbox[1] the height of the tallest glyph.                      *)
CharWidth(c) == IF c = "b" THEN 2 ELSE 1
CharHeight(c) == IF c = " " THEN 0 ELSE IF c = "b" THEN 2 ELSE 1

RECURSIVE BBoxWidth(_)
BBoxWidth(s) == IF s = <<>> THEN 0 ELSE CharWidth(Head(s)) + BBoxWidth(Tail(s))

RECURSIVE BBoxHeight(_)
BBoxHeight(s) ==
    IF s = <<>> THEN 0
    ELSE LET h == CharHeight(Head(s))
             r == BBoxHeight(Tail(s))
         IN IF h > r THEN h ELSE r

(* str.split(' '): cut at every single space; n spaces give n+1 pieces,    *)
(* empty pieces included.                                                  *)
RECURSIVE Split(_)
Split(s) ==
    IF s = <<>> THEN << <<>> >>
    ELSE LET rest == Split(Tail(s))
         IN IF Head(s) = " "
            THEN << <<>> >> \o rest
            ELSE << <<Head(s)>> \o Head(rest) >> \o Tail(rest)

(* str.strip(): drop the leading and the trailing whitespace.              *)
RECURSIVE LStrip(_)
LStrip(s) == IF s # <<>> /\ Head(s) = " " THEN LStrip(Tail(s)) ELSE s

RECURSIVE RStrip(_)
RStrip(s) ==
    IF s # <<>> /\ s[Len(s)] = " " THEN RStrip(SubSeq(s, 1, Len(s) - 1)) ELSE s

Strip(s) == RStrip(LStrip(s))

----------------------------------------------------------------------------
(* text_wrap.  The loop state is [i, line, lines]; i is 1-based here       *)
(* (words[i] below is words[i-1] of the code).                             *)

WrapInit == [i |-> 1, line |-> <<>>, lines |-> <<>>]

(* A loop body that forgets the word that caused the flush. *)
WrapBody_DropsWord(text, max_width, st) ==
    LET words == Split(text)
        test_line == st.line \o words[st.i] \o <<" ">>
        text_width == BBoxWidth(text)
    IN IF text_width > max_width
       THEN [i |-> st.i + 1, line |-> <<>>,
             lines |-> Append(st.lines, Strip(st.line))]
       ELSE [i |-> st.i + 1, line |-> test_line, lines |-> st.lines]

(* One iteration of `while i < len(words)`: the width measured is that of  *)
(* the whole `text`, as line 89 has it.                                    *)
WrapBody(text, max_width, st) ==
    LET words == Split(text)
        test_line == st.line \o words[st.i] \o <<" ">>
        text_width == BBoxWidth(text)
    IN IF text_width > max_width
       THEN [i |-> st.i + 1, line |-> words[st.i] \o <<" ">>,
             lines |-> Append(st.lines, Strip(st.line))]
       ELSE [i |-> st.i + 1, line |-> test_line, lines |-> st.lines]

RECURSIVE WrapLoop(_, _, _)
WrapLoop(text, max_width, st) ==
    IF st.i <= Len(Split(text))
    THEN WrapLoop(text, max_width, WrapBody(text, max_width, st))
    ELSE st

(* text_wrap(text, font, max_width) on a str text: the returned lines.     *)
(* A text of another type has no split(): see Overlay.                     *)
text_wrap(text, font, max_width) ==
    IF text = None \/ font = None \/ max_width = None
    THEN <<>>
    ELSE LET st == WrapLoop(text.v, max_width.v, WrapInit)
         IN Append(st.lines, Strip(st.line))

----------------------------------------------------------------------------
(* SpecWrap: text_wrap on its own, one action per step of its body.        *)

RECURSIVE SeqsUpTo(_)
SeqsUpTo(n) ==
    IF n = 0 THEN { <<>> }
    ELSE LET shorter == SeqsUpTo(n - 1)
         IN shorter \cup { Append(s, c) : s \in shorter, c \in Chars }

Texts == SeqsUpTo(MaxLen)

WrapIdle ==
    /\ w_pc = "idle"
    /\ w_text = None
    /\ w_font = None
    /\ w_max = None
    /\ w_st = WrapInit
    /\ w_result = <<>>
    /\ w_decisions = <<>>

(* A decoded image: the embedded image it was decoded from (page, index),  *)
(* its width, the filters applied to it so far and the text drawn on it.   *)
NoImage == [src |-> <<0, 0>>, width |-> 0, ops |-> <<>>, draws |-> <<>>]

(* What a JPEG file holds of the image written to it: the embedded image   *)
(* whose pixels they are and the filters they went through.                *)
Pixels(img) == [src |-> img.src, ops |-> img.ops]

(* A file: whether it exists, whether its content is a complete JPEG, and  *)
(* the pixels that were (being) written to it.                             *)
NoFile == [exists |-> FALSE, complete |-> FALSE, img |-> Pixels(NoImage)]

PdfIdle ==
    /\ args = [describe |-> FALSE, openai_key |-> "", blur |-> 0,
               emboss |-> FALSE, gray |-> FALSE, black |-> FALSE]
    /\ pc = "idle"
    /\ abortCause = ""
    /\ opened = FALSE
    /\ nPages = 0
    /\ pageNo = 0
    /\ image_list = 0
    /\ img_index = 0
    /\ pil_img = NoImage
    /\ description = None
    /\ snapshotFailed = FALSE
    /\ callFailed = FALSE
    /\ lastSent = NoFile
    /\ o_tmp = NoFile
    /\ tmp = NoFile
    /\ lastInserted = [at |-> <<0, 0>>, img |-> Pixels(NoImage)]
    /\ unprocessed = 0
    /\ saveCalls = 0
    /\ output = "none"

InitWrap ==
    /\ PdfIdle
    /\ w_pc = "entry"
    /\ w_text \in {None} \cup { Str(s) : s \in Texts }
    /\ w_font \in {None, Font}
    /\ w_max \in {None} \cup { Num(n) : n \in 1..MaxWidth }
    /\ w_st = WrapInit
    /\ w_result = <<>>
    /\ w_decisions = <<>>

(* Lines 79-86: the None guard, then the loop's initial state. *)
WrapEntry ==
    /\ w_pc = "entry"
    /\ IF w_text = None \/ w_font = None \/ w_max = None
       THEN /\ w_result' = <<>>
            /\ w_pc' = "returned"
       ELSE /\ w_result' = w_result
            /\ w_pc' = "loop"
    /\ w_st' = WrapInit
    /\ UNCHANGED <<w_text, w_font, w_max, w_decisions>>

(* Lines 87-97: one iteration.  w_decisions records, for the iteration,    *)
(* the candidate line and whether the code flushed.                        *)
WrapIterate ==
    /\ w_pc = "loop"
    /\ w_st.i <= Len(Split(w_text.v))
    /\ w_st' = WrapBody(w_text.v, w_max.v, w_st)
    /\ w_decisions' = Append(w_decisions,
          [cand |-> w_st.line \o Split(w_text.v)[w_st.i] \o <<" ">>,
           flushed |-> Len(w_st'.lines) > Len(w_st.lines)])
    /\ UNCHANGED <<w_pc, w_text, w_font, w_max, w_result>>

(* Lines 98-99. *)
WrapReturn ==
    /\ w_pc = "loop"
    /\ w_st.i > Len(Split(w_text.v))
    /\ w_result' = Append(w_st.lines, Strip(w_st.line))
    /\ w_pc' = "returned"
    /\ UNCHANGED <<w_text, w_font, w_max, w_st, w_decisions>>

NextWrap ==
    \/ WrapEntry /\ UNCHANGED pdfVars
    \/ WrapIterate /\ UNCHANGED pdfVars
    \/ WrapReturn /\ UNCHANGED pdfVars

SpecWrap == InitWrap /\ [][NextWrap]_vars

WrapReturned == w_pc = "returned" /\ w_text # None /\ w_font # None /\ w_max # None

(* The operator used by extract_pdf and the stepwise loop agree. *)
WrapStepsAgree ==
    w_pc = "returned" => w_result = text_wrap(w_text, w_font, w_max)

----------------------------------------------------------------------------
(* get_image_description.                                                  *)

Descriptions == { <<"a", " ", "b">> }

(* What requests.post and response.json() can give: an exception, a body   *)
(* that is not JSON, a JSON error body (non-2xx) or a body lacking         *)
(* choices[0].message.content, or a body whose content is some JSON value: *)
(* a string, null, or a value of another type.                             *)
FailedReplies == { "network_error", "non_2xx", "malformed_json", "missing_field" }

Replies ==
    { [kind |-> k, content |-> None] : k \in FailedReplies }
    \cup { [kind |-> "ok", content |-> c] :
             c \in { Str(d) : d \in Descriptions } \cup { Str(<<>>), None, Other } }

(* The value the call returns: None from the bare `return` of line 28,     *)
(* "" from the except clause, else response[...]['content'] as it is.      *)
get_image_description(image_file, reply) ==
    IF ~image_file.exists THEN None
    ELSE IF reply.kind # "ok" THEN Str(<<>>)
    ELSE reply.content

----------------------------------------------------------------------------
(* Image.save(path, format='JPEG'): on success the file holds the image.   *)
(* When it raises, the file is as it was (the error came before the file   *)
(* was opened), or holds an incomplete JPEG, or -- if save created it -- is *)
(* removed again.                                                          *)
SaveOutcomes == { "ok", "untouched", "partial", "cleanup" }

SaveResult(before, img, outcome) ==
    CASE outcome = "ok" -> [exists |-> TRUE, complete |-> TRUE, img |-> Pixels(img)]
      [] outcome = "untouched" -> before
      [] outcome = "partial" -> [exists |-> TRUE, complete |-> FALSE, img |-> Pixels(img)]
      [] outcome = "cleanup" ->
            IF before.exists
            THEN [exists |-> TRUE, complete |-> FALSE, img |-> Pixels(img)]
            ELSE NoFile

(* Image.filter / Image.convert: a new image, the filter added to those    *)
(* already applied.                                                        *)
Filter(img, f, r) == [img EXCEPT !.ops = Append(@, [f |-> f, r |-> r])]

(* The filters in another order: monochrome before grayscale. *)
ApplyFilters_BlackFirst(img, a) ==
    LET i1 == IF a.blur > 0 THEN Filter(img, "blur", a.blur) ELSE img
        i2 == IF a.emboss THEN Filter(i1, "emboss", 0) ELSE i1
        i3 == IF a.black THEN Filter(i2, "black", 0) ELSE i2
        i4 == IF a.gray THEN Filter(i3, "gray", 0) ELSE i3
    IN i4

(* Lines 155-170. *)
ApplyFilters(img, a) ==
    LET i1 == IF a.blur > 0 THEN Filter(img, "blur", a.blur) ELSE img
        i2 == IF a.emboss THEN Filter(i1, "emboss", 0) ELSE i1
        i3 == IF a.gray THEN Filter(i2, "gray", 0) ELSE i2
        i4 == IF a.black THEN Filter(i3, "black", 0) ELSE i3
    IN i4

(* Lines 177-185: the draw.text calls, in the order they are made. *)
y_text0 == 10
x_text == 10

RECURSIVE DrawLines(_, _)
DrawLines(lines, y_text) ==
    IF lines = <<>> THEN <<>>
    ELSE LET line == Head(lines)
             text_height == BBoxHeight(line)
         IN << [xy |-> <<x_text, y_text>>, text |-> line, fill |-> "white"],
               [xy |-> <<x_text + 1, y_text + 1>>, text |-> line, fill |-> "black"] >>
            \o DrawLines(Tail(lines), y_text + text_height)

----------------------------------------------------------------------------
(* extract_pdf.                                                            *)

ArgsSet ==
    [describe : BOOLEAN, openai_key : {"", "sk-key"}, blur : {0, MaxBlur},
     emboss : BOOLEAN, gray : BOOLEAN, black : BOOLEAN]

Init ==
    /\ WrapIdle
    /\ args \in ArgsSet
    /\ pc = "start"
    /\ abortCause = ""
    /\ opened = FALSE
    /\ nPages = 0
    /\ pageNo = 0
    /\ image_list = 0
    /\ img_index = 0
    /\ pil_img = NoImage
    /\ description = None
    /\ snapshotFailed = FALSE
    /\ callFailed = FALSE
    /\ lastSent = NoFile
    /\ o_tmp = NoFile
    /\ tmp = NoFile
    /\ lastInserted = [at |-> <<0, 0>>, img |-> Pixels(NoImage)]
    /\ unprocessed = 0
    /\ saveCalls = 0
    /\ output = "none"

Abort(cause) ==
    /\ pc' = "aborted"
    /\ abortCause' = cause

(* The key check left out: the run goes on to open the document. *)
CheckKey_NoReturn ==
    /\ pc = "start"
    /\ pc' = "open"
    /\ UNCHANGED <<args, abortCause, opened, nPages, pageNo, image_list, img_index,
                   pil_img, description, snapshotFailed, callFailed, lastSent,
                   o_tmp, tmp, lastInserted, unprocessed, saveCalls, output>>

(* Lines 112-116. *)
CheckKey ==
    /\ pc = "start"
    /\ IF args.describe /\ args.openai_key = ""
       THEN Abort("nokey")
       ELSE pc' = "open" /\ abortCause' = abortCause
    /\ UNCHANGED <<args, opened, nPages, pageNo, image_list, img_index,
                   pil_img, description, snapshotFailed, callFailed, lastSent,
                   o_tmp, tmp, lastInserted, unprocessed, saveCalls, output>>

(* Lines 119-120: fitz.open returns a document of some length, or raises. *)
OpenDoc ==
    /\ pc = "open"
    /\ \/ \E n \in 0..MaxPages :
            /\ opened' = TRUE
            /\ nPages' = n
            /\ pageNo' = 1
            /\ pc' = "page"
            /\ abortCause' = abortCause
       \/ /\ Abort("open")
          /\ UNCHANGED <<opened, nPages, pageNo>>
    /\ UNCHANGED <<args, image_list, img_index, pil_img, description, snapshotFailed,
                   callFailed, lastSent, o_tmp, tmp, lastInserted, unprocessed,
                   saveCalls, output>>

(* Lines 123-129: the next page of `for page in doc` and its image list,   *)
(* or the end of the loop.                                                 *)
NextPage ==
    /\ pc = "page"
    /\ IF pageNo <= nPages
       THEN \E n \in 0..MaxImages :
               /\ image_list' = n
               /\ img_index' = 0
               /\ unprocessed' = unprocessed + n
               /\ pc' = "image"
       ELSE /\ pc' = "save"
            /\ UNCHANGED <<image_list, img_index, unprocessed>>
    /\ UNCHANGED <<args, abortCause, opened, nPages, pageNo, pil_img, description,
                   snapshotFailed, callFailed, lastSent, o_tmp, tmp, lastInserted,
                   saveCalls, output>>

(* Lines 129-136: the next image of the page is extracted and decoded      *)
(* (Image.open may raise), or the inner loop ends.                         *)
NextImage ==
    /\ pc = "image"
    /\ IF img_index < image_list
       THEN \/ \E w \in 1..MaxImgWidth :
                 /\ pil_img' = [src |-> <<pageNo, img_index>>, width |-> w,
                                ops |-> <<>>, draws |-> <<>>]
                 /\ description' = None
                 /\ snapshotFailed' = FALSE
                 /\ callFailed' = FALSE
                 /\ lastSent' = NoFile
                 /\ pc' = IF args.describe THEN "snapshot" ELSE "filters"
                 /\ abortCause' = abortCause
            \/ /\ Abort("decode")
               /\ UNCHANGED <<pil_img, description, snapshotFailed, callFailed, lastSent>>
       ELSE /\ pc' = "page_end"
            /\ UNCHANGED <<abortCause, pil_img, description, snapshotFailed,
                           callFailed, lastSent>>
    /\ UNCHANGED <<args, opened, nPages, pageNo, image_list, img_index, o_tmp, tmp,
                   lastInserted, unprocessed, saveCalls, output>>

(* The snapshot taken of the filtered image. *)
SaveSnapshot_Filtered ==
    /\ pc = "snapshot"
    /\ \E outcome \in SaveOutcomes :
          /\ o_tmp' = SaveResult(o_tmp, ApplyFilters(pil_img, args), outcome)
          /\ snapshotFailed' = (outcome # "ok")
    /\ pc' = "describe"
    /\ UNCHANGED <<args, abortCause, opened, nPages, pageNo, image_list, img_index,
                   pil_img, description, callFailed, lastSent, tmp, lastInserted,
                   unprocessed, saveCalls, output>>

(* Lines 140-144: pil_img.save(orig_tmp_path); an exception is printed. *)
SaveSnapshot ==
    /\ pc = "snapshot"
    /\ \E outcome \in SaveOutcomes :
          /\ o_tmp' = SaveResult(o_tmp, pil_img, outcome)
          /\ snapshotFailed' = (outcome # "ok")
    /\ pc' = "describe"
    /\ UNCHANGED <<args, abortCause, opened, nPages, pageNo, image_list, img_index,
                   pil_img, description, callFailed, lastSent, tmp, lastInserted,
                   unprocessed, saveCalls, output>>

(* Lines 146-153: the call of get_image_description on o_tmp.jpg, then the *)
(* removal of o_tmp.jpg if it exists.                                      *)
Describe ==
    /\ pc = "describe"
    /\ \E reply \in Replies :
          /\ description' = get_image_description(o_tmp, reply)
          /\ callFailed' = (~o_tmp.exists \/ reply.kind # "ok" \/ reply.content.t # "str")
    /\ lastSent' = o_tmp
    /\ o_tmp' = NoFile
    /\ pc' = "filters"
    /\ UNCHANGED <<args, abortCause, opened, nPages, pageNo, image_list, img_index,
                   pil_img, snapshotFailed, tmp, lastInserted, unprocessed,
                   saveCalls, output>>

(* Lines 155-172. *)
Filters ==
    /\ pc = "filters"
    /\ pil_img' = ApplyFilters(pil_img, args)
    /\ pc' = IF args.describe THEN "overlay" ELSE "save_tmp"
    /\ UNCHANGED <<args, abortCause, opened, nPages, pageNo, image_list, img_index,
                   description, snapshotFailed, callFailed, lastSent, o_tmp, tmp,
                   lastInserted, unprocessed, saveCalls, output>>

(* Lines 173-185: the font is loaded (ImageFont.truetype raises when       *)
(* arial.ttf is not found), the description wrapped -- text.split raises   *)
(* when the description is neither None nor a str -- and the lines drawn.  *)
Overlay ==
    /\ pc = "overlay"
    /\ \/ /\ Abort("font")
          /\ UNCHANGED pil_img
       \/ /\ description.t = "other"
          /\ Abort("text_wrap")
          /\ UNCHANGED pil_img
       \/ /\ description.t # "other"
          /\ LET lines == text_wrap(description, Font, Num(pil_img.width))
             IN pil_img' = [pil_img EXCEPT !.draws = DrawLines(lines, y_text0)]
          /\ pc' = "save_tmp"
          /\ abortCause' = abortCause
    /\ UNCHANGED <<args, opened, nPages, pageNo, image_list, img_index,
                   description, snapshotFailed, callFailed, lastSent, o_tmp, tmp,
                   lastInserted, unprocessed, saveCalls, output>>

(* Lines 187-190: pil_img.save(tmp_image_path); an exception is printed. *)
SaveTmp ==
    /\ pc = "save_tmp"
    /\ \E outcome \in SaveOutcomes : tmp' = SaveResult(tmp, pil_img, outcome)
    /\ pc' = "insert"
    /\ UNCHANGED <<args, abortCause, opened, nPages, pageNo, image_list, img_index,
                   pil_img, description, snapshotFailed, callFailed, lastSent, o_tmp,
                   lastInserted, unprocessed, saveCalls, output>>

(* Lines 192-194: page.insert_image(bbox, filename=tmp_image_path) puts    *)
(* the content of tmp.jpg on the page; it raises when the file is missing  *)
(* or is no image, and may raise otherwise.                                *)
Insert ==
    /\ pc = "insert"
    /\ \/ /\ tmp.exists /\ tmp.complete
          /\ lastInserted' = [at |-> <<pageNo, img_index>>, img |-> tmp.img]
          /\ unprocessed' = unprocessed - 1
          /\ img_index' = img_index + 1
          /\ pc' = "image"
          /\ abortCause' = abortCause
       \/ /\ Abort("insert")
          /\ UNCHANGED <<lastInserted, unprocessed, img_index>>
    /\ UNCHANGED <<args, opened, nPages, pageNo, image_list, pil_img, description,
                   snapshotFailed, callFailed, lastSent, o_tmp, tmp, saveCalls, output>>

(* Lines 196-197, at the end of each page. *)
PageEnd ==
    /\ pc = "page_end"
    /\ tmp' = NoFile
    /\ pageNo' = pageNo + 1
    /\ pc' = "page"
    /\ UNCHANGED <<args, abortCause, opened, nPages, image_list, img_index, pil_img,
                   description, snapshotFailed, callFailed, lastSent, o_tmp,
                   lastInserted, unprocessed, saveCalls, output>>

(* Lines 199-200: doc.save(args.output_file) and doc.close(); a save that  *)
(* raises may have left nothing or an incomplete file.                     *)
SaveDoc ==
    /\ pc = "save"
    /\ saveCalls' = saveCalls + 1
    /\ \/ /\ output' = "saved"
          /\ pc' = "done"
          /\ abortCause' = abortCause
       \/ /\ output' \in {output, "partial"}
          /\ Abort("save")
    /\ UNCHANGED <<args, opened, nPages, pageNo, image_list, img_index, pil_img,
                   description, snapshotFailed, callFailed, lastSent, o_tmp, tmp,
                   lastInserted, unprocessed>>

Next ==
    \/ CheckKey /\ UNCHANGED wrapVars
    \/ OpenDoc /\ UNCHANGED wrapVars
    \/ NextPage /\ UNCHANGED wrapVars
    \/ NextImage /\ UNCHANGED wrapVars
    \/ SaveSnapshot /\ UNCHANGED wrapVars
    \/ Describe /\ UNCHANGED wrapVars
    \/ Filters /\ UNCHANGED wrapVars
    \/ Overlay /\ UNCHANGED wrapVars
    \/ SaveTmp /\ UNCHANGED wrapVars
    \/ Insert /\ UNCHANGED wrapVars
    \/ PageEnd /\ UNCHANGED wrapVars
    \/ SaveDoc /\ UNCHANGED wrapVars

Spec == Init /\ [][Next]_vars

TypeOK ==
    /\ pc \in {"start", "open", "page", "image", "snapshot", "describe", "filters",
               "overlay", "save_tmp", "insert", "page_end", "save", "done", "aborted"}
    /\ unprocessed \in 0..(MaxPages * MaxImages)
    /\ saveCalls \in 0..1

----------------------------------------------------------------------------
(* Properties of text_wrap, checked under SpecWrap.                        *)

(* The words of a text: the non-empty pieces between spaces. *)
IsWord(w) == w # <<>>
Words(s) == SelectSeq(Split(s), IsWord)

RECURSIVE LinesWords(_)
LinesWords(lines) ==
    IF lines = <<>> THEN <<>> ELSE Words(Head(lines)) \o LinesWords(Tail(lines))

Fits(s) == BBoxWidth(s) <= w_max.v

(* C1: for non-None inputs every returned line is at most max_width wide,  *)
(* and each iteration flushes exactly when the candidate line (the current *)
(* line plus the next word) is wider than max_width.  Stated for the texts *)
(* whose every word fits max_width by itself: no wrapping can make a line  *)
(* of a wider word fit.                                                    *)
WordsFit == \A k \in 1..Len(Split(w_text.v)) : Fits(Split(w_text.v)[k])

C1_LinesFitByCandidate ==
    (WrapReturned /\ WordsFit) =>
        /\ \A k \in 1..Len(w_result) : Fits(w_result[k])
        /\ \A k \in 1..Len(w_decisions) :
              w_decisions[k].flushed <=> ~Fits(Strip(w_decisions[k].cand))

(* C8 as stated: the returned lines carry the words of the text in order,  *)
(* and a text that fits max_width comes back unchanged as the only line.   *)
C8_Original ==
    WrapReturned =>
        /\ LinesWords(w_result) = Words(w_text.v)
        /\ Fits(w_text.v) => w_result = << w_text.v >>

(* C8 amended: the returned lines carry the words of the text in order,    *)
(* and a text that fits max_width comes back as exactly one line, the text *)
(* with its leading and trailing spaces stripped.                          *)
C8_WordsKept ==
    WrapReturned =>
        /\ LinesWords(w_result) = Words(w_text.v)
        /\ Fits(w_text.v) => w_result = << Strip(w_text.v) >>

(* A fitting text of several words with a trailing or leading space has    *)
(* been wrapped into its stripped form.                                    *)
C8_Witness ==
    /\ WrapReturned
    /\ Fits(w_text.v)
    /\ Len(Words(w_text.v)) >= 2
    /\ Strip(w_text.v) # w_text.v
    /\ w_result = << Strip(w_text.v) >>

----------------------------------------------------------------------------
(* Properties of extract_pdf, checked under Spec.                          *)

InImage == pc \in {"snapshot", "describe", "filters", "overlay", "save_tmp", "insert"}
CaptionFailed == args.describe /\ (snapshotFailed \/ callFailed)

(* C2: every call of get_image_description returns a string, and the empty *)
(* string when the call failed.                                            *)
C2_ReturnsString ==
    (args.describe /\ pc = "filters") =>
        /\ description.t = "str"
        /\ callFailed => description = Str(<<>>)

(* C3: doc.save is called at most once, only after the page loop has       *)
(* ended with every listed image re-inserted; a run ended by a fatal       *)
(* condition other than the save itself has called no save and left no     *)
(* output; with --describe and no key nothing is opened or processed.      *)
C3_SingleSaveAtEnd ==
    /\ saveCalls <= 1
    /\ saveCalls = 1 =>
          /\ opened
          /\ pageNo > nPages
          /\ unprocessed = 0
          /\ pc \in {"done", "aborted"}
    /\ output # "none" => saveCalls = 1
    /\ (pc = "aborted" /\ abortCause # "save") => (saveCalls = 0 /\ output = "none")
    /\ (args.describe /\ args.openai_key = "") =>
          /\ ~opened
          /\ pil_img = NoImage
          /\ saveCalls = 0
          /\ pc \in {"start", "aborted"}

(* A two-page document whose images were re-inserted has been saved. *)
C3_Witness ==
    /\ pc = "done"
    /\ saveCalls = 1
    /\ output = "saved"
    /\ nPages = 2
    /\ lastInserted.at = <<2, 1>>

(* C4: once the captioning path of an image has failed (the snapshot save  *)
(* or the captioning call), the run is not ended by the caption it got,    *)
(* and the image reaches its save and re-insertion with every configured   *)
(* filter applied.                                                         *)
C4_CaptionFailureHarmless ==
    CaptionFailed =>
        /\ ~(pc = "aborted" /\ abortCause = "text_wrap")
        /\ pc \in {"save_tmp", "insert"} =>
              pil_img.ops = ApplyFilters([pil_img EXCEPT !.ops = <<>>], args).ops

(* C5: neither temporary file exists when the processing of an image       *)
(* begins, nor after the run has ended (normally or not).                  *)
C5_NoTempFileLeft ==
    /\ (pc = "image" /\ img_index < image_list) => (~o_tmp.exists /\ ~tmp.exists)
    /\ pc \in {"done", "aborted"} => (~o_tmp.exists /\ ~tmp.exists)

FilterNames == {"blur", "emboss", "gray", "black"}
Rank(f) == CASE f = "blur" -> 1 [] f = "emboss" -> 2 [] f = "gray" -> 3 [] f = "black" -> 4
Wanted(f) ==
    CASE f = "blur" -> args.blur > 0
      [] f = "emboss" -> args.emboss
      [] f = "gray" -> args.gray
      [] f = "black" -> args.black
Count(ops, f) == Cardinality({ k \in DOMAIN ops : ops[k].f = f })

InFilterOrder(ops) ==
    /\ \A f \in FilterNames : Count(ops, f) = IF Wanted(f) THEN 1 ELSE 0
    /\ \A i, j \in DOMAIN ops : i < j => Rank(ops[i].f) < Rank(ops[j].f)
    /\ \A k \in DOMAIN ops : ops[k].f = "blur" => ops[k].r = args.blur

(* C6: after the filter stage the image carries each enabled filter once   *)
(* and no other, in the order blur, emboss, grayscale, monochrome; blur    *)
(* only for a radius above 0; the same holds of what is put on the page.   *)
C6_FilterOrder ==
    /\ pc \in {"snapshot", "describe", "filters"} => pil_img.ops = <<>>
    /\ pc \in {"overlay", "save_tmp", "insert"} => InFilterOrder(pil_img.ops)
    /\ lastInserted.at # <<0, 0>> => InFilterOrder(lastInserted.img.ops)

(* An image with all four filters requested has passed the filter stage. *)
C6_Witness ==
    /\ pc = "insert"
    /\ args.blur > 0 /\ args.emboss /\ args.gray /\ args.black
    /\ Len(pil_img.ops) = 4

(* C7: the file given to the captioning call holds the image as decoded:   *)
(* the pixels of the current image, no filter applied.                     *)
C7_SnapshotUnfiltered ==
    /\ o_tmp.exists => (o_tmp.img.ops = <<>> /\ o_tmp.img.src = pil_img.src)
    /\ lastSent.exists => (lastSent.img.ops = <<>> /\ lastSent.img.src = pil_img.src)

(* A snapshot was posted for an image that then received all four filters. *)
C7_Witness ==
    /\ pc = "insert"
    /\ lastSent.exists /\ lastSent.complete
    /\ Len(pil_img.ops) = 4

(* C9: for every line the black shadow, one pixel down and right, is drawn *)
(* before the white foreground, so the foreground is the later drawing;    *)
(* the lines are stacked from y_text0, each advancing by its height.       *)
Foreground(d) == SelectSeq(d, LAMBDA c : c.fill = "white")

C9_ShadowBeneath ==
    LET d == pil_img.draws
        fg == Foreground(d)
    IN /\ \A i \in DOMAIN d :
             d[i].fill = "white" =>
                \E j \in 1..(i - 1) :
                   /\ d[j].fill = "black"
                   /\ d[j].text = d[i].text
                   /\ d[j].xy = <<d[i].xy[1] + 1, d[i].xy[2] + 1>>
       /\ \A k \in DOMAIN fg :
             /\ fg[k].xy[1] = x_text
             /\ fg[k].xy[2] = IF k = 1 THEN y_text0
                              ELSE fg[k - 1].xy[2] + BBoxHeight(fg[k - 1].text)

(* C10: what page.insert_image puts at an image's place is the processed   *)
(* result of that image, never the content another image left in tmp.jpg.  *)
C10_InsertsOwnImage ==
    lastInserted.at # <<0, 0>> =>
        /\ lastInserted.img.src = lastInserted.at
        /\ pc = "image" => lastInserted.img = Pixels(pil_img)

====
